---- MODULE Spec2Model ----
(***************************************************************************)
(* Model of Notas.py: the multi-file pipeline of main() (directory         *)
(* listing, read loop with header detection, column-count reconciliation,  *)
(* pd.concat, GestorNotasCombinado.generar_html5_interactivo) and the      *)
(* single-file GestorNotas (cargar_datos, buscar_por_cedula,               *)
(* generar_excel_con_timestamp, generar_html5_interactivo), the display    *)
(* projection of both classes, and the script of the artifact in a browser *)
(* (SpecPagina).                                                           *)
(*                                                                         *)
(* Text is a sequence of one-character strings, so that lower(), replace() *)
(* and substring containment are computed and not assumed.  A cell value   *)
(* is a record [tipo, txt]: tipo is "str", "int" or "nan" (an empty cell,  *)
(* pandas NaN) and txt is the text of the value.  A DataFrame is a record  *)
(* [columns, rows]: the ordered column labels (cell values, since pandas   *)
(* keeps a numeric header cell as a number) and the ordered rows, each a   *)
(* sequence of cell values aligned with columns.                           *)
(***************************************************************************)
EXTENDS Integers, Sequences, FiniteSets, TLC

(***************************************************************************)
(* Bounds of the explored inputs.                                          *)
(***************************************************************************)
\* entries of the directory listing of main()
MaxArchivos == 2
\* entries of the directory listing in SpecDiagnostico
MaxArchivosDiag == 3
\* columns of a sheet read by main()
MaxCols == 2
\* rows of a sheet below its first row, in main()
MaxFilas == 2
\* rows of a sheet below its first row, for GestorNotas
MaxFilasG == 2
\* the widest dataset given to the display projection
MaxColsP == 7
\* the most records of a dataset given to the display projection
MaxFilasP == 2
\* the most rows embedded in an artifact opened in a browser
MaxFilasPagina == 2
\* the longest text typed into the search box
MaxLargo == 3

(***************************************************************************)
(* Text                                                                    *)
(***************************************************************************)
Mayusculas ==
  <<"A","B","C","D","E","F","G","H","I","J","K","L","M","N","O","P","Q","R",
    "S","T","U","V","W","X","Y","Z","É","Ó">>

Minusculas ==
  <<"a","b","c","d","e","f","g","h","i","j","k","l","m","n","o","p","q","r",
    "s","t","u","v","w","x","y","z","é","ó">>

Digitos == <<"0","1","2","3","4","5","6","7","8","9">>

\* the decimal digit of n, 0 <= n <= 9
Dig(n) == Digitos[n + 1]

\* the lower-case letter of every upper-case letter
EnMinuscula ==
  [ch \in {Mayusculas[i] : i \in 1..Len(Mayusculas)} |->
     Minusculas[CHOOSE i \in 1..Len(Mayusculas) : Mayusculas[i] = ch]]

\* str.lower() on one character
LowerChar(ch) == IF ch \in DOMAIN EnMinuscula THEN EnMinuscula[ch] ELSE ch

\* str.lower()
Lower(s) == [i \in 1..Len(s) |-> LowerChar(s[i])]

\* Python's `sub in s`, and str.contains(sub, regex=False) on one value
Contiene(sub, s) ==
  \E i \in 0..(Len(s) - Len(sub)) : SubSeq(s, i + 1, i + Len(sub)) = sub

\* s.replace(ch, "")
RECURSIVE Quitar(_, _)
Quitar(s, ch) ==
  IF s = <<>> THEN <<>>
  ELSE IF Head(s) = ch THEN Quitar(Tail(s), ch)
       ELSE <<Head(s)>> \o Quitar(Tail(s), ch)

\* " ".join(partes)
RECURSIVE Unir(_)
Unir(partes) ==
  IF partes = <<>> THEN <<>>
  ELSE IF Len(partes) = 1 THEN partes[1]
       ELSE partes[1] \o <<" ">> \o Unir(Tail(partes))

\* the concatenation of a sequence of sequences
RECURSIVE Aplanar(_)
Aplanar(ss) == IF ss = <<>> THEN <<>> ELSE Head(ss) \o Aplanar(Tail(ss))

(***************************************************************************)
(* Cell values                                                             *)
(***************************************************************************)
NaN == [tipo |-> "nan", txt |-> <<>>]

Texto(t) == [tipo |-> "str", txt |-> t]

Entero(t) == [tipo |-> "int", txt |-> t]

\* Python's str(valor): a text is itself, an integer its digits, NaN "nan"
Str(v) == IF v.tipo = "nan" THEN <<"n","a","n">> ELSE v.txt

(***************************************************************************)
(* pandas.read_excel.  A sheet is the sequence of its raw rows, all of the *)
(* same width.  The header row gives the column labels and the rows below  *)
(* it the data.                                                            *)
(***************************************************************************)
DataFrameVacio == [columns |-> <<>>, rows |-> <<>>]

\* the label pandas gives column j of a header row: an empty header cell is
\* named "Unnamed: <j-1>", and a label that repeats an earlier one of the row
\* becomes the text "<label>.<number of earlier occurrences>"
Etiqueta(fila, j) ==
  LET nombre(k) ==
        IF fila[k].tipo = "nan"
        THEN Texto(<<"U","n","n","a","m","e","d",":"," ">> \o <<Dig(k - 1)>>)
        ELSE fila[k]
      antes == Cardinality({k \in 1..(j - 1) : nombre(k) = nombre(j)})
  IN  IF antes = 0 THEN nombre(j)
      ELSE Texto(Str(nombre(j)) \o <<".">> \o <<Dig(antes)>>)

Etiquetas(fila) == [j \in 1..Len(fila) |-> Etiqueta(fila, j)]

\* pd.read_excel(archivo)
ReadExcel(hoja) ==
  IF hoja = <<>> THEN DataFrameVacio
  ELSE [columns |-> Etiquetas(hoja[1]), rows |-> Tail(hoja)]

\* pd.read_excel(archivo, nrows=1)
ReadExcelNrows1(hoja) ==
  IF hoja = <<>> THEN DataFrameVacio
  ELSE [columns |-> Etiquetas(hoja[1]),
        rows |-> SubSeq(hoja, 2, IF Len(hoja) >= 2 THEN 2 ELSE 1)]

\* pd.read_excel(archivo, skiprows=1)
ReadExcelSkip1(hoja) == IF hoja = <<>> THEN DataFrameVacio ELSE ReadExcel(Tail(hoja))

(***************************************************************************)
(* Header detection.  The same code stands twice in the source: in         *)
(* GestorNotas.cargar_datos and in the read loop of main().                *)
(***************************************************************************)
palabras_encabezado ==
  << <<"c","o","l","u","m","n","a">>,
     <<"a","t","i","n","e","n","c","i","a">>,
     <<"n","o","m","b","r","e">>,
     <<"m","o","d","u","l","o","s">>,
     <<"m","ó","d","u","l","o","s">> >>

\* primera_fila.values.flatten(): the data rows of the frame, row by row
ValuesFlatten(df) == Aplanar(df.rows)

\* " ".join(str(valor).lower() for valor in primera_fila.values.flatten())
primera_fila_texto(primera_fila) ==
  LET vals == ValuesFlatten(primera_fila)
  IN  Unir([i \in 1..Len(vals) |-> Lower(Str(vals[i]))])

\* any(palabra in primera_fila_texto for palabra in palabras_encabezado)
contiene_palabras_encabezado(primera_fila) ==
  \E texto \in {primera_fila_texto(primera_fila)} :
     \E k \in 1..Len(palabras_encabezado) : Contiene(palabras_encabezado[k], texto)

\* the body of the try block of main()'s read loop: `salto` is the branch
\* taken (the line "Saltando primera fila" is printed), df the frame appended
LeerEnMain(hoja) ==
  IF contiene_palabras_encabezado(ReadExcelNrows1(hoja))
  THEN [salto |-> TRUE, df |-> ReadExcelSkip1(hoja)]
  ELSE [salto |-> FALSE, df |-> ReadExcel(hoja)]

\* cargar_datos reading the whole file again where it should skip a row
CargarDatosMut(hoja) ==
  IF contiene_palabras_encabezado(ReadExcelNrows1(hoja))
  THEN [salto |-> TRUE, datos |-> ReadExcel(hoja)]
  ELSE [salto |-> FALSE, datos |-> ReadExcel(hoja)]

\* GestorNotas.cargar_datos on an existing, readable file: `salto` is the
\* branch taken (logged), datos the value of self.datos
CargarDatos(hoja) ==
  IF contiene_palabras_encabezado(ReadExcelNrows1(hoja))
  THEN [salto |-> TRUE, datos |-> ReadExcelSkip1(hoja)]
  ELSE [salto |-> FALSE, datos |-> ReadExcel(hoja)]

(***************************************************************************)
(* pandas.concat(dataframes, ignore_index=True): rows are stacked in list  *)
(* order and columns are aligned BY LABEL.  The result has the union of    *)
(* the labels, in order of first appearance, and a row holds NaN under     *)
(* every label its own frame does not have.                                *)
(***************************************************************************)
\* the elements of s in order of first appearance
RECURSIVE SinRepetir(_, _)
SinRepetir(s, vistos) ==
  IF s = <<>> THEN <<>>
  ELSE IF Head(s) \in vistos THEN SinRepetir(Tail(s), vistos)
       ELSE <<Head(s)>> \o SinRepetir(Tail(s), vistos \cup {Head(s)})

UnionColumnas(dfs) ==
  SinRepetir(Aplanar([k \in 1..Len(dfs) |-> dfs[k].columns]), {})

\* the rows of df laid out under the labels cols
Reindexar(df, cols) ==
  [r \in 1..Len(df.rows) |->
     [j \in 1..Len(cols) |->
        IF \E i \in 1..Len(df.columns) : df.columns[i] = cols[j]
        THEN df.rows[r][CHOOSE i \in 1..Len(df.columns) : df.columns[i] = cols[j]]
        ELSE NaN]]

\* concat stacking the frames last to first
ConcatMut(dfs) ==
  LET cols == UnionColumnas(dfs)
  IN  [columns |-> cols,
       rows    |-> Aplanar([k \in 1..Len(dfs) |->
                              Reindexar(dfs[Len(dfs) + 1 - k], cols)])]

Concat(dfs) ==
  LET cols == UnionColumnas(dfs)
  IN  [columns |-> cols,
       rows    |-> Aplanar([k \in 1..Len(dfs) |-> Reindexar(dfs[k], cols)])]

(***************************************************************************)
(* The display projection of generar_html5_interactivo: df_html has the    *)
(* six columns of columnas_especificas; column i is column i of self.datos *)
(* by position, or "" when self.datos has fewer columns.  A frame without  *)
(* columns gives df_html no index, hence no rows.                          *)
(***************************************************************************)
columnas_especificas ==
  <<"Cédula", "Nombre", "Módulos", "Temario", "Tabla de Especificaciones",
    "Prueba Escrita">>

\* GestorNotasCombinado.generar_html5_interactivo: the records of datos_json
FilasHtmlCombinado(datos) ==
  IF datos.columns = <<>> THEN <<>>
  ELSE [r \in 1..Len(datos.rows) |->
          [i \in 1..Len(columnas_especificas) |->
             IF i <= Len(datos.columns) THEN datos.rows[r][i] ELSE Texto(<<>>)]]

\* the projection that keeps every column of self.datos
FilasHtmlMut(datos) == datos.rows

\* GestorNotas.generar_html5_interactivo: the records of datos_json
FilasHtml(datos) ==
  IF datos.columns = <<>> THEN <<>>
  ELSE [r \in 1..Len(datos.rows) |->
          [i \in 1..Len(columnas_especificas) |->
             IF i <= Len(datos.columns) THEN datos.rows[r][i] ELSE Texto(<<>>)]]

(***************************************************************************)
(* The datasets given to the display projection: up to MaxColsP columns    *)
(* and MaxFilasP records of distinct values; the column `hueco`, when not  *)
(* 0, holds no value in any record.                                        *)
(***************************************************************************)
TablaP(ancho, nfilas, hueco) ==
  [columns |-> [c \in 1..ancho |-> Texto(<<"c", Dig(c)>>)],
   rows    |-> [r \in 1..nfilas |->
                  [c \in 1..ancho |->
                     IF c = hueco THEN NaN ELSE Texto(<<Dig(r), Dig(c)>>)]]]

TablasP ==
  {DataFrameVacio} \cup
  {TablaP(ancho, nfilas, hueco) :
     ancho \in 1..MaxColsP, nfilas \in 0..MaxFilasP, hueco \in 0..MaxColsP}

(***************************************************************************)
(* The directory read by main().  An entry is a name that fails the filter *)
(* of the listing ("otro": no .xlsx suffix, a ~$ lock file, a directory),  *)
(* or a spreadsheet, which pandas can read or not.  A file is named by its *)
(* position in the listing.  A readable sheet has `ancho` columns and      *)
(* `nfilas` rows below its first row; its first row holds the labels of    *)
(* variant "A" or "B" (which differ in the first label only); `titulo`     *)
(* says that its second row is header-like (every cell holds the word      *)
(* Nombre); every other cell holds a text found nowhere else, made of the  *)
(* position of the file, of the row and of the column.                     *)
(***************************************************************************)
EntradaFija(clase) ==
  [clase |-> clase, legible |-> FALSE, ancho |-> 1, variante |-> "A",
   nfilas |-> 0, titulo |-> FALSE]

Entradas ==
  {EntradaFija("otro"), EntradaFija("xlsx")}
  \cup {e \in [clase : {"xlsx"}, legible : {TRUE}, ancho : 1..MaxCols,
               variante : {"A", "B"}, nfilas : 0..MaxFilas, titulo : BOOLEAN] :
          e.titulo => e.nfilas >= 1}

RECURSIVE SeqHasta(_, _)
\* the sequences over S of length at most n
SeqHasta(S, n) ==
  IF n = 0 THEN {<<>>}
  ELSE LET menores == SeqHasta(S, n - 1)
       IN  menores \cup {Append(s, x) : s \in {t \in menores : Len(t) = n - 1}, x \in S}

Directorios == SeqHasta(Entradas, MaxArchivos)

EtiquetasA ==
  << <<"C","e","d","u","l","a">>, <<"N","o","m","b","r","e">>,
     <<"M","o","d","u","l","o","s">> >>

EtiquetaA(c) == IF c <= Len(EtiquetasA) THEN EtiquetasA[c] ELSE <<"c", Dig(c)>>

EtiquetaB(c) == IF c = 1 THEN <<"I","d">> ELSE EtiquetaA(c)

Hoja(e, p) ==
  LET fila0 == [c \in 1..e.ancho |->
                  Texto(IF e.variante = "A" THEN EtiquetaA(c) ELSE EtiquetaB(c))]
      fila(r) == [c \in 1..e.ancho |->
                    IF r = 1 /\ e.titulo
                    THEN Texto(<<"N","o","m","b","r","e">> \o <<Dig(c)>>)
                    ELSE Texto(<<Dig(p), Dig(r), Dig(c)>>)]
  IN  <<fila0>> \o [r \in 1..e.nfilas |-> fila(r)]



(***************************************************************************)
(* GestorNotas.buscar_por_cedula                                           *)
(***************************************************************************)
palabras_cedula ==
  << <<"c","e","d","u","l","a">>,
     <<"c","é","d","u","l","a">>,
     <<"i","d","e","n","t","i","f","i","c","a","c","i","o","n">>,
     <<"i","d","e","n","t","i","f","i","c","a","c","i","ó","n">>,
     <<"d","n","i">>,
     <<"i","d">> >>

\* the normalization without its second replace
cedula_limpiaMut(cedula) == Quitar(cedula, "-")

\* cedula.replace("-", "").replace(" ", "")
cedula_limpia(cedula) == Quitar(Quitar(cedula, "-"), " ")

\* self.datos[columna] = self.datos[columna].astype(str): every value of
\* column j becomes its text.  A column of integers with an empty cell is a
\* float64 column, whose numbers print with ".0"; NaN prints as "nan".
AsTypeStr(datos, j) ==
  LET flotante ==
        /\ \A r \in 1..Len(datos.rows) : datos.rows[r][j].tipo \in {"int", "nan"}
        /\ \E r \in 1..Len(datos.rows) : datos.rows[r][j].tipo = "nan"
      texto(v) ==
        IF v.tipo = "int" /\ flotante THEN Texto(v.txt \o <<".", "0">>)
        ELSE Texto(Str(v))
  IN  [datos EXCEPT !.rows =
         [r \in 1..Len(datos.rows) |-> [datos.rows[r] EXCEPT ![j] = texto(@)]]]

\* the loop `for columna in columnas_cedula`: revisadas lists the columns
\* coerced and scanned so far
RECURSIVE Explorar(_, _, _, _)
Explorar(datos, columnas, limpia, revisadas) ==
  IF columnas = <<>>
  THEN [datos |-> datos, estudiante |-> <<>>, excepcion |-> FALSE,
        revisadas |-> revisadas, limpia |-> limpia]
  ELSE LET j == Head(columnas)
           d2 == AsTypeStr(datos, j)
           coincidencias ==
             {r \in 1..Len(d2.rows) : Contiene(limpia, d2.rows[r][j].txt)}
       IN  IF coincidencias # {}
           THEN [datos |-> d2,
                 estudiante |->
                   <<d2.rows[CHOOSE r \in coincidencias :
                                \A q \in coincidencias : r <= q]>>,
                 excepcion |-> FALSE,
                 revisadas |-> Append(revisadas, j),
                 limpia |-> limpia]
           ELSE Explorar(d2, Tail(columnas), limpia, Append(revisadas, j))

\* the method with every column as a candidate, whatever the labels
BuscarPorCedulaMut(datos, cedula) ==
  LET n == Len(datos.columns)
  IN  IF \E j \in 1..n : datos.columns[j].tipo # "str"
      THEN [datos |-> datos, estudiante |-> <<>>, excepcion |-> TRUE,
            revisadas |-> <<>>, limpia |-> cedula_limpia(cedula)]
      ELSE Explorar(datos, [j \in 1..n |-> j], cedula_limpia(cedula), <<>>)

\* the whole method.  col.lower() raises AttributeError on a label that is
\* not text; the except clause logs it and returns None.  estudiante is <<>>
\* for None and <<row>> for the dict of the row found; limpia is the value of
\* the local cedula_limpia.
BuscarPorCedula(datos, cedula) ==
  LET n == Len(datos.columns)
      EsCedula(j) ==
        \E k \in 1..Len(palabras_cedula) :
           Contiene(palabras_cedula[k], Lower(datos.columns[j].txt))
      candidatas == SelectSeq([j \in 1..n |-> j], EsCedula)
      columnas_cedula == IF candidatas = <<>> THEN [j \in 1..n |-> j] ELSE candidatas
  IN  IF \E j \in 1..n : datos.columns[j].tipo # "str"
      THEN [datos |-> datos, estudiante |-> <<>>, excepcion |-> TRUE,
            revisadas |-> <<>>, limpia |-> cedula_limpia(cedula)]
      ELSE Explorar(datos, columnas_cedula, cedula_limpia(cedula), <<>>)

(***************************************************************************)
(* The sheets and the queries given to GestorNotas: a header row of        *)
(* EncabezadosG and up to MaxFilasG rows of values of ValoresG.  A sheet   *)
(* is the rows as the Excel reader hands them to the parser of pandas,     *)
(* which trims the empty rows at the end of a sheet and drops every empty  *)
(* row of a one-column sheet: such rows are not in a sheet.                *)
(***************************************************************************)
EncabezadosG ==
  { << Texto(<<"C","e","d","u","l","a">>), Texto(<<"N","o","m","b","r","e">>) >>,
    << Texto(<<"N","o","m","b","r","e">>), Texto(<<"I","D">>) >>,
    << Texto(<<"N","o","m","b","r","e">>), Texto(<<"N","o","t","a">>) >>,
    << Texto(<<"D","N","I">>), Texto(<<"C","É","D","U","L","A">>) >>,
    << Entero(<<"2","0","2","4">>), Texto(<<"C","e","d","u","l","a">>) >>,
    << Texto(<<"C","e","d","u","l","a">>) >> }

ValoresG ==
  { Texto(<<"0","1","2","3","4","5","6","7">>),
    Texto(<<"N","o","m","b","r","e">>),
    NaN }

FilaVacia(fila) == \A c \in 1..Len(fila) : fila[c].tipo = "nan"

HojasG ==
  UNION {{<<h>> \o f : f \in {g \in SeqHasta([1..Len(h) -> ValoresG], MaxFilasG) :
                                /\ g # <<>> => ~FilaVacia(g[Len(g)])
                                /\ Len(h) = 1 => \A r \in 1..Len(g) : ~FilaVacia(g[r])}} :
           h \in EncabezadosG}

Consultas ==
  { <<"1","-","2","3","4"," ","5","6","7">>,
    <<"0","1">>,
    <<"a","-","n">>,
    <<"n","o","m","b","r","e">>,
    <<"9">> }

(***************************************************************************)
(* The script of the artifact written by GestorNotasCombinado.  A value of *)
(* the embedded JSON is a cell of df_html as to_json writes it: NaN is     *)
(* null, a text a string, an integer a number.                             *)
(***************************************************************************)
\* the ids of the elements of the template
IdsPlantillaCombinada ==
  {"searchInput", "dataTable", "tableBody", "initialMessage", "noResults",
   "errorMessage"}

\* the style attributes of the markup: "" is an element without one
DisplayInicial ==
  [dataTable |-> "", initialMessage |-> "", noResults |-> "none",
   errorMessage |-> "none"]

\* JavaScript's falsy values: null, the empty string, the number 0
Falsy(v) ==
  \/ v.tipo = "nan"
  \/ v.tipo = "str" /\ v.txt = <<>>
  \/ v.tipo = "int" /\ v.txt = <<"0">>

\* v || ''
OVacio(v) == IF Falsy(v) THEN Texto(<<>>) ELSE v

\* String(v) of a string or a number
JsString(v) == v.txt

RECURSIVE TrimIzq(_)
TrimIzq(s) == IF s # <<>> /\ Head(s) = " " THEN TrimIzq(Tail(s)) ELSE s

RECURSIVE TrimDer(_)
TrimDer(s) ==
  IF s # <<>> /\ s[Len(s)] = " " THEN TrimDer(SubSeq(s, 1, Len(s) - 1)) ELSE s

\* String.prototype.trim() on texts whose only white space is " "
Trim(s) == TrimDer(TrimIzq(s))

EsDigito(ch) == \E i \in 1..Len(Digitos) : Digitos[i] = ch

\* value.replace(/[^0-9]/g, '')
SoloDigitos(s) == SelectSeq(s, EsDigito)

\* the six cells of a rendered row: td.textContent = row[col] || ''
Celdas(row) == [i \in 1..Len(row) |-> JsString(OVacio(row[i]))]

\* renderTable(data) with `valor` in the search box: the rows of the body,
\* the four display styles, and whether the call ended in the TypeError of
\* updateStats, whose elements the template may lack
RenderTable(data, valor) ==
  [tbody   |-> [k \in 1..Len(data) |-> Celdas(data[k])],
   display |->
     [dataTable      |-> IF data = <<>> THEN "none" ELSE "table",
      noResults      |-> IF data = <<>> /\ Trim(valor) # <<>> THEN "block" ELSE "none",
      initialMessage |-> IF data = <<>> /\ Trim(valor) = <<>> THEN "block" ELSE "none",
      errorMessage   |-> "none"],
   error   |-> ~({"totalRecords", "filteredRecords"} \subseteq IdsPlantillaCombinada)]

\* the value searchTable() gives filteredData
FiltrarFilas(datos_tabla, valor) ==
  LET searchTerm == Trim(Lower(valor))
      Coincide(row) == Lower(JsString(OVacio(row[1]))) = searchTerm
  IN  IF searchTerm = <<>> THEN <<>> ELSE SelectSeq(datos_tabla, Coincide)

\* the identity values of the datasets behind the pages, the keys typed and
\* the datasets: an identity column and a name column
ValoresCedula ==
  { Texto(<<"1","2">>), Texto(<<"0","1","2">>), Entero(<<"1","2">>),
    Entero(<<"0">>), NaN }

Teclas == {"0", "1", "2", "-"}

DatosPagina ==
  {[columns |-> <<Texto(<<"C","e","d","u","l","a">>), Texto(<<"N","o","m","b","r","e">>)>>,
    rows    |-> f] :
     f \in SeqHasta({<<v, Texto(<<"n">>)>> : v \in ValoresCedula}, MaxFilasPagina)}

(***************************************************************************)
(* GestorNotas.generar_excel_con_timestamp and the attributes of a         *)
(* GestorNotas object.                                                     *)
(***************************************************************************)
\* the attributes GestorNotas.__init__ sets
AtributosGestorNotas == {"archivo_excel", "datos"}

\* str(dtype) of column j: a column without values, of texts or of mixed
\* values is "object", a column of integers "int64", and a column of
\* integers and NaN, or of NaN only, "float64"
TipoDato(datos, j) ==
  LET tipos == {datos.rows[r][j].tipo : r \in 1..Len(datos.rows)}
  IN  IF tipos = {} THEN "object"
      ELSE IF tipos = {"int"} THEN "int64"
      ELSE IF tipos \subseteq {"int", "nan"} THEN "float64"
      ELSE "object"

\* self.datos.count() for column j
ValoresNoNulos(datos, j) ==
  Cardinality({r \in 1..Len(datos.rows) : datos.rows[r][j].tipo # "nan"})

\* self.datos[col].nunique() for column j
ValoresUnicos(datos, j) ==
  Cardinality({datos.rows[r][j] : r \in {q \in 1..Len(datos.rows) :
                                            datos.rows[q][j].tipo # "nan"}})

\* ", ".join(partes)
RECURSIVE UnirComa(_)
UnirComa(partes) ==
  IF partes = <<>> THEN <<>>
  ELSE IF Len(partes) = 1 THEN partes[1]
       ELSE partes[1] \o <<",", " ">> \o UnirComa(Tail(partes))

\* the three sheets of the workbook, without the time of generation and the
\* path, which are the clock's and the caller's.  to_excel writes NaN as an
\* empty cell and a text, "nan" included, as that text.
LibroExcel(datos) ==
  [Informacion_General |->
     [Total_Registros      |-> Len(datos.rows),
      Columnas_Disponibles |->
        UnirComa([j \in 1..Len(datos.columns) |-> datos.columns[j].txt])],
   Datos_Completos  |-> datos,
   Resumen_Columnas |->
     [j \in 1..Len(datos.columns) |->
        [Columna          |-> datos.columns[j],
         Tipo_Dato        |-> TipoDato(datos, j),
         Valores_No_Nulos |-> ValoresNoNulos(datos, j),
         Valores_Unicos   |-> ValoresUnicos(datos, j)]]]

(***************************************************************************)
(* State                                                                   *)
(***************************************************************************)
VARIABLES
  directorio,        \* main: os.listdir("."), fixed during the run
  pc,                \* main: the position of main()
  archivos_excel,    \* main: the names that pass the filter
  i_archivo,         \* main: the index of `for archivo in archivos_excel`
  dataframes,        \* main: the frames read so far
  mensaje,           \* main: the outcome printed last
  diagnostico,       \* main: the (archivo, num_cols) lines printed on a mismatch
  datos_combinados,  \* main: <<the result of pd.concat>>, <<>> before it
  archivos_origen,   \* <<GestorNotasCombinado.archivos_origen>>, <<>> before it
  artefactos,        \* main: the HTML files written
  estado_salida,     \* main: <<the exit status of the process>>, <<>> while running
  hoja,              \* header detection: the sheet read
  carga,             \* header detection: <<CargarDatos(hoja)>> once cargar_datos ran
  bucle,             \* header detection: <<LeerEnMain(hoja)>> once the loop body ran
  archivo_excel,     \* GestorNotas: the sheet of self.archivo_excel
  datos,             \* GestorNotas: self.datos
  llamada,           \* GestorNotas: <<the last call of buscar_por_cedula>>
  libro,             \* GestorNotas: <<the last call of generar_excel_con_timestamp>>
  html,              \* GestorNotas: <<the last call of generar_html5_interactivo>>
  tabla,             \* projection: the dataset, self.datos of either class
  df_html,           \* projection: <<datos_json of GestorNotas>> once computed
  df_html_combinado, \* projection: <<datos_json of GestorNotasCombinado>> once computed
  tableData,         \* page: the rows embedded in the artifact
  searchInput,       \* page: the value of the search box
  filteredData,      \* page: the script's variable of that name
  tbody,             \* page: the rows of #tableBody, each the text of its six cells
  display,           \* page: the display style of the four switched elements
  cargada,           \* page: DOMContentLoaded was dispatched
  tecla_abajo,       \* page: a key pressed in the search box is not released yet
  error_consola      \* page: the handler run last ended in an uncaught error

vars_main ==
  <<directorio, pc, archivos_excel, i_archivo, dataframes, mensaje, diagnostico,
    datos_combinados, archivos_origen, artefactos, estado_salida>>

vars_encabezado == <<hoja, carga, bucle>>

vars_gestor == <<archivo_excel, datos, llamada>>

vars_informe == <<libro, html>>

vars_proyeccion == <<tabla, df_html, df_html_combinado>>

vars_pagina ==
  <<tableData, searchInput, filteredData, tbody, display, cargada, tecla_abajo,
    error_consola>>

vars ==
  <<vars_main, vars_encabezado, vars_gestor, vars_informe, vars_proyeccion,
    vars_pagina>>

(***************************************************************************)
(* main()                                                                  *)
(***************************************************************************)
\* the positions of the entries that pass the filter, in listing order
RECURSIVE Filtrar(_, _)
Filtrar(dir, p) ==
  IF p > Len(dir) THEN <<>>
  ELSE (IF dir[p].clase = "xlsx" THEN <<p>> ELSE <<>>) \o Filtrar(dir, p + 1)

\* zip(a, b)
Zip(a, b) ==
  [k \in 1..(IF Len(a) <= Len(b) THEN Len(a) ELSE Len(b)) |-> <<a[k], b[k]>>]

columnas_por_archivo(dfs) == [k \in 1..Len(dfs) |-> Len(dfs[k].columns)]

Rango(s) == {s[k] : k \in 1..Len(s)}

MainSinEmpezar ==
  /\ pc = "listar"
  /\ archivos_excel = <<>>
  /\ i_archivo = 1
  /\ dataframes = <<>>
  /\ mensaje = "ninguno"
  /\ diagnostico = <<>>
  /\ datos_combinados = <<>>
  /\ archivos_origen = <<>>
  /\ artefactos = <<>>
  /\ estado_salida = <<>>

EncabezadoSinUso == hoja = <<>> /\ carga = <<>> /\ bucle = <<>>

GestorSinUso == archivo_excel = <<>> /\ datos = DataFrameVacio /\ llamada = <<>>

InformeSinUso == libro = <<>> /\ html = <<>>

ProyeccionSinUso ==
  tabla = DataFrameVacio /\ df_html = <<>> /\ df_html_combinado = <<>>

PaginaSinUso ==
  /\ tableData = <<>>
  /\ searchInput = <<>>
  /\ filteredData = <<>>
  /\ tbody = <<>>
  /\ display = <<>>
  /\ cargada = FALSE
  /\ tecla_abajo = FALSE
  /\ error_consola = FALSE

Init ==
  /\ directorio \in Directorios
  /\ MainSinEmpezar
  /\ EncabezadoSinUso
  /\ GestorSinUso
  /\ InformeSinUso
  /\ ProyeccionSinUso
  /\ PaginaSinUso

\* the listing and the "no Excel files" return
Listar ==
  /\ pc = "listar"
  /\ archivos_excel' = Filtrar(directorio, 1)
  /\ IF archivos_excel' = <<>>
     THEN pc' = "fin" /\ mensaje' = "no_encontrados" /\ estado_salida' = <<0>>
     ELSE pc' = "leer" /\ UNCHANGED <<mensaje, estado_salida>>
  /\ UNCHANGED <<directorio, i_archivo, dataframes, diagnostico,
                 datos_combinados, archivos_origen, artefactos>>
  /\ UNCHANGED <<vars_encabezado, vars_gestor, vars_informe, vars_proyeccion,
                 vars_pagina>>

\* the read loop with `break` in place of `continue`
LeerMut ==
  /\ pc = "leer"
  /\ i_archivo <= Len(archivos_excel)
  /\ LET archivo == archivos_excel[i_archivo]
     IN  IF directorio[archivo].legible
         THEN /\ dataframes' =
                   Append(dataframes, LeerEnMain(Hoja(directorio[archivo], archivo)).df)
              /\ i_archivo' = i_archivo + 1
         ELSE /\ dataframes' = dataframes
              /\ i_archivo' = Len(archivos_excel) + 1
  /\ UNCHANGED <<directorio, pc, archivos_excel, mensaje, diagnostico,
                 datos_combinados, archivos_origen, artefactos, estado_salida>>
  /\ UNCHANGED <<vars_encabezado, vars_gestor, vars_informe, vars_proyeccion,
                 vars_pagina>>

\* one iteration of the read loop: append the frame, or skip on an exception
Leer ==
  /\ pc = "leer"
  /\ i_archivo <= Len(archivos_excel)
  /\ LET archivo == archivos_excel[i_archivo]
     IN  dataframes' =
           IF directorio[archivo].legible
           THEN Append(dataframes, LeerEnMain(Hoja(directorio[archivo], archivo)).df)
           ELSE dataframes
  /\ i_archivo' = i_archivo + 1
  /\ UNCHANGED <<directorio, pc, archivos_excel, mensaje, diagnostico,
                 datos_combinados, archivos_origen, artefactos, estado_salida>>
  /\ UNCHANGED <<vars_encabezado, vars_gestor, vars_informe, vars_proyeccion,
                 vars_pagina>>

\* the check after the loop without its return
ComprobarLecturaMut ==
  /\ pc = "leer"
  /\ i_archivo > Len(archivos_excel)
  /\ pc' = "conciliar"
  /\ UNCHANGED <<mensaje, estado_salida>>
  /\ UNCHANGED <<directorio, archivos_excel, i_archivo, dataframes, diagnostico,
                 datos_combinados, archivos_origen, artefactos>>
  /\ UNCHANGED <<vars_encabezado, vars_gestor, vars_informe, vars_proyeccion,
                 vars_pagina>>

\* after the loop: `if not dataframes: return`
ComprobarLectura ==
  /\ pc = "leer"
  /\ i_archivo > Len(archivos_excel)
  /\ IF dataframes = <<>>
     THEN pc' = "fin" /\ mensaje' = "no_validos" /\ estado_salida' = <<0>>
     ELSE pc' = "conciliar" /\ UNCHANGED <<mensaje, estado_salida>>
  /\ UNCHANGED <<directorio, archivos_excel, i_archivo, dataframes, diagnostico,
                 datos_combinados, archivos_origen, artefactos>>
  /\ UNCHANGED <<vars_encabezado, vars_gestor, vars_informe, vars_proyeccion,
                 vars_pagina>>

\* the check comparing the numbers of rows, len(df), of the frames
ConciliarMut ==
  /\ pc = "conciliar"
  /\ IF Cardinality({Len(dataframes[k].rows) : k \in 1..Len(dataframes)}) > 1
     THEN /\ diagnostico' = Zip(archivos_excel, columnas_por_archivo(dataframes))
          /\ mensaje' = "diferentes_columnas"
          /\ pc' = "fin"
          /\ estado_salida' = <<0>>
     ELSE /\ pc' = "combinar"
          /\ UNCHANGED <<mensaje, diagnostico, estado_salida>>
  /\ UNCHANGED <<directorio, archivos_excel, i_archivo, dataframes,
                 datos_combinados, archivos_origen, artefactos>>
  /\ UNCHANGED <<vars_encabezado, vars_gestor, vars_informe, vars_proyeccion,
                 vars_pagina>>

\* the column-count check, its diagnostic and its return
Conciliar ==
  /\ pc = "conciliar"
  /\ IF Cardinality(Rango(columnas_por_archivo(dataframes))) > 1
     THEN /\ diagnostico' = Zip(archivos_excel, columnas_por_archivo(dataframes))
          /\ mensaje' = "diferentes_columnas"
          /\ pc' = "fin"
          /\ estado_salida' = <<0>>
     ELSE /\ pc' = "combinar"
          /\ UNCHANGED <<mensaje, diagnostico, estado_salida>>
  /\ UNCHANGED <<directorio, archivos_excel, i_archivo, dataframes,
                 datos_combinados, archivos_origen, artefactos>>
  /\ UNCHANGED <<vars_encabezado, vars_gestor, vars_informe, vars_proyeccion,
                 vars_pagina>>

\* pd.concat and the construction of GestorNotasCombinado
Combinar ==
  /\ pc = "combinar"
  /\ datos_combinados' = <<Concat(dataframes)>>
  /\ archivos_origen' = <<archivos_excel>>
  /\ mensaje' = "combinados"
  /\ pc' = "generar"
  /\ UNCHANGED <<directorio, archivos_excel, i_archivo, dataframes, diagnostico,
                 artefactos, estado_salida>>
  /\ UNCHANGED <<vars_encabezado, vars_gestor, vars_informe, vars_proyeccion,
                 vars_pagina>>

\* gestor.generar_html5_interactivo(): the file is written, or open()/write()
\* raises, the exception is re-raised and leaves main() uncaught
Generar ==
  /\ pc = "generar"
  /\ \E escribe \in BOOLEAN :
       IF escribe
       THEN /\ artefactos' =
                 Append(artefactos,
                        [filas |-> FilasHtmlCombinado(datos_combinados[1]),
                         n_archivos |-> Len(archivos_origen[1])])
            /\ mensaje' = "generado"
            /\ estado_salida' = <<0>>
       ELSE /\ UNCHANGED artefactos
            /\ mensaje' = "excepcion"
            /\ estado_salida' = <<1>>
  /\ pc' = "fin"
  /\ UNCHANGED <<directorio, archivos_excel, i_archivo, dataframes, diagnostico,
                 datos_combinados, archivos_origen>>
  /\ UNCHANGED <<vars_encabezado, vars_gestor, vars_informe, vars_proyeccion,
                 vars_pagina>>

Next == Listar \/ Leer \/ ComprobarLectura \/ Conciliar \/ Combinar \/ Generar

Spec == Init /\ [][Next]_vars

(***************************************************************************)
(* main() on the longer listings a skipped file followed by two files of   *)
(* different widths needs.                                                 *)
(***************************************************************************)
InitDiagnostico ==
  /\ directorio \in SeqHasta(Entradas, MaxArchivosDiag)
  /\ MainSinEmpezar
  /\ EncabezadoSinUso
  /\ GestorSinUso
  /\ InformeSinUso
  /\ ProyeccionSinUso
  /\ PaginaSinUso

SpecDiagnostico == InitDiagnostico /\ [][Next]_vars

(***************************************************************************)
(* Header detection on one sheet by both loaders.                          *)
(***************************************************************************)
InitEncabezado ==
  /\ hoja \in HojasG
  /\ carga = <<>>
  /\ bucle = <<>>
  /\ directorio = <<>>
  /\ MainSinEmpezar
  /\ GestorSinUso
  /\ InformeSinUso
  /\ ProyeccionSinUso
  /\ PaginaSinUso

\* GestorNotas(archivo).cargar_datos()
CargarDatosHoja ==
  /\ carga = <<>>
  /\ carga' = <<CargarDatos(hoja)>>
  /\ UNCHANGED <<hoja, bucle, vars_main, vars_gestor, vars_informe,
                 vars_proyeccion, vars_pagina>>

\* the try block of main()'s loop on the same file
LeerHoja ==
  /\ bucle = <<>>
  /\ bucle' = <<LeerEnMain(hoja)>>
  /\ UNCHANGED <<hoja, carga, vars_main, vars_gestor, vars_informe,
                 vars_proyeccion, vars_pagina>>

NextEncabezado == CargarDatosHoja \/ LeerHoja

SpecEncabezado == InitEncabezado /\ [][NextEncabezado]_vars

(***************************************************************************)
(* A GestorNotas object: constructed from a sheet, then looked up.         *)
(***************************************************************************)
InitGestor ==
  /\ archivo_excel \in HojasG
  /\ datos = CargarDatos(archivo_excel).datos
  /\ llamada = <<>>
  /\ directorio = <<>>
  /\ MainSinEmpezar
  /\ EncabezadoSinUso
  /\ InformeSinUso
  /\ ProyeccionSinUso
  /\ PaginaSinUso

\* gestor.buscar_por_cedula(cedula); datos_antes is self.datos at the call
Buscar ==
  \E cedula \in Consultas :
    \E b \in {BuscarPorCedula(datos, cedula)} :
        /\ datos' = b.datos
        /\ llamada' = <<[cedula |-> cedula,
                         datos_antes |-> datos,
                         estudiante |-> b.estudiante,
                         excepcion |-> b.excepcion,
                         revisadas |-> b.revisadas,
                         limpia |-> b.limpia]>>
        /\ UNCHANGED <<archivo_excel, vars_main, vars_encabezado, vars_informe,
                         vars_proyeccion, vars_pagina>>

NextGestor == Buscar

SpecGestor == InitGestor /\ [][NextGestor]_vars

(***************************************************************************)
(* A GestorNotas object: constructed from a sheet, then looked up and      *)
(* asked for its reports.                                                  *)
(***************************************************************************)
\* gestor.generar_excel_con_timestamp().  str.join raises TypeError on a
\* label that is not text, and the writer may fail on the file; the except
\* clause logs the exception and raises it again.
GenerarExcel ==
  /\ \E escribe \in BOOLEAN :
       libro' =
         IF escribe /\ \A j \in 1..Len(datos.columns) : datos.columns[j].tipo = "str"
         THEN <<[excepcion |-> FALSE, hojas |-> <<LibroExcel(datos)>>]>>
         ELSE <<[excepcion |-> TRUE, hojas |-> <<>>]>>
  /\ UNCHANGED <<archivo_excel, datos, llamada, html, vars_main, vars_encabezado,
                 vars_proyeccion, vars_pagina>>

\* gestor.generar_html5_interactivo().  datos_json is computed; the template
\* then reads self.archivos_origen, which raises AttributeError on an object
\* without that attribute before the file is opened; the except clause logs
\* the exception and raises it again.
GenerarHtml ==
  /\ html' =
       IF "archivos_origen" \in AtributosGestorNotas
       THEN <<[excepcion |-> FALSE, datos_json |-> FilasHtml(datos),
               archivo |-> <<[filas |-> FilasHtml(datos)]>>]>>
       ELSE <<[excepcion |-> TRUE, datos_json |-> FilasHtml(datos),
               archivo |-> <<>>]>>
  /\ UNCHANGED <<archivo_excel, datos, llamada, libro, vars_main,
                 vars_encabezado, vars_proyeccion, vars_pagina>>

NextInforme == Buscar \/ GenerarExcel \/ GenerarHtml

SpecInforme == InitGestor /\ [][NextInforme]_vars

(***************************************************************************)
(* The display projection of both classes on one dataset.                  *)
(***************************************************************************)
InitProyeccion ==
  /\ tabla \in TablasP
  /\ df_html = <<>>
  /\ df_html_combinado = <<>>
  /\ directorio = <<>>
  /\ MainSinEmpezar
  /\ EncabezadoSinUso
  /\ GestorSinUso
  /\ InformeSinUso
  /\ PaginaSinUso

\* lines 182-190 of GestorNotas.generar_html5_interactivo
Proyectar ==
  /\ df_html = <<>>
  /\ df_html' = <<FilasHtml(tabla)>>
  /\ UNCHANGED <<tabla, df_html_combinado, vars_main, vars_encabezado,
                 vars_gestor, vars_informe, vars_pagina>>

\* lines 676-684 of GestorNotasCombinado.generar_html5_interactivo
ProyectarCombinado ==
  /\ df_html_combinado = <<>>
  /\ df_html_combinado' = <<FilasHtmlCombinado(tabla)>>
  /\ UNCHANGED <<tabla, df_html, vars_main, vars_encabezado, vars_gestor,
                 vars_informe, vars_pagina>>

NextProyeccion == Proyectar \/ ProyectarCombinado

SpecProyeccion == InitProyeccion /\ [][NextProyeccion]_vars

(***************************************************************************)
(* The artifact of GestorNotasCombinado opened in a browser.  The script   *)
(* stands at the end of the body: the page is parsed and the script has    *)
(* run in the first state, DOMContentLoaded is dispatched next, and the    *)
(* events of the user are handled after it.                                *)
(***************************************************************************)
InitPagina ==
  /\ tableData \in {FilasHtmlCombinado(d) : d \in DatosPagina}
  /\ searchInput = <<>>
  /\ filteredData = tableData
  /\ tbody = <<>>
  /\ display = DisplayInicial
  /\ cargada = FALSE
  /\ tecla_abajo = FALSE
  /\ error_consola = FALSE
  /\ directorio = <<>>
  /\ MainSinEmpezar
  /\ EncabezadoSinUso
  /\ GestorSinUso
  /\ InformeSinUso
  /\ ProyeccionSinUso

vars_fuera_de_pagina ==
  <<vars_main, vars_encabezado, vars_gestor, vars_informe, vars_proyeccion>>

\* the listener of DOMContentLoaded: renderTable([])
DOMContentLoaded ==
  /\ ~cargada
  /\ \E r \in {RenderTable(<<>>, searchInput)} :
       /\ tbody' = r.tbody
       /\ display' = r.display
       /\ error_consola' = r.error
  /\ cargada' = TRUE
  /\ UNCHANGED <<tableData, searchInput, filteredData, tecla_abajo>>
  /\ UNCHANGED vars_fuera_de_pagina

\* a key pressed in the search box changes its text (a character of Teclas
\* at the end, or Backspace), and the listener of `input` strips the text
InputListener ==
  /\ cargada
  /\ \E crudo \in {Append(searchInput, ch) : ch \in Teclas}
                   \cup {SubSeq(searchInput, 1, Len(searchInput) - 1)} :
       /\ crudo # searchInput
       /\ Len(crudo) <= MaxLargo
       /\ searchInput' = SoloDigitos(crudo)
  /\ tecla_abajo' = TRUE
  /\ error_consola' = FALSE
  /\ UNCHANGED <<tableData, filteredData, tbody, display, cargada>>
  /\ UNCHANGED vars_fuera_de_pagina

\* searchTable(), as every handler that calls it runs it
SearchTable ==
  \E f \in {FiltrarFilas(tableData, searchInput)} :
    \E r \in {RenderTable(f, searchInput)} :
       /\ filteredData' = f
       /\ tbody' = r.tbody
       /\ display' = r.display
       /\ error_consola' = r.error

\* onkeyup="searchTable()": the key is released
KeyUp ==
  /\ cargada
  /\ tecla_abajo
  /\ SearchTable
  /\ tecla_abajo' = FALSE
  /\ UNCHANGED <<tableData, searchInput, cargada>>
  /\ UNCHANGED vars_fuera_de_pagina

\* the listener of keypress with e.key === 'Enter'; Enter changes no text
KeyPressEnter ==
  /\ cargada
  /\ SearchTable
  /\ tecla_abajo' = TRUE
  /\ UNCHANGED <<tableData, searchInput, cargada>>
  /\ UNCHANGED vars_fuera_de_pagina

\* onclick="searchTable()" of the button Buscar
ClickBuscar ==
  /\ cargada
  /\ SearchTable
  /\ UNCHANGED <<tableData, searchInput, cargada, tecla_abajo>>
  /\ UNCHANGED vars_fuera_de_pagina

\* onclick="clearSearch()" of the button Limpiar
ClickLimpiar ==
  /\ cargada
  /\ searchInput' = <<>>
  /\ filteredData' = <<>>
  /\ \E r \in {RenderTable(<<>>, <<>>)} :
       /\ tbody' = r.tbody
       /\ display' = r.display
       /\ error_consola' = r.error
  /\ UNCHANGED <<tableData, cargada, tecla_abajo>>
  /\ UNCHANGED vars_fuera_de_pagina

NextPagina ==
  DOMContentLoaded \/ InputListener \/ KeyUp \/ KeyPressEnter \/ ClickBuscar
    \/ ClickLimpiar

SpecPagina == InitPagina /\ [][NextPagina]_vars

(***************************************************************************)
(* Properties of main()                                                    *)
(***************************************************************************)
\* the positions of the spreadsheets of the listing that can be read, from
\* position p on, in listing order
RECURSIVE Legibles(_, _)
Legibles(dir, p) ==
  IF p > Len(dir) THEN <<>>
  ELSE (IF dir[p].clase = "xlsx" /\ dir[p].legible THEN <<p>> ELSE <<>>)
       \o Legibles(dir, p + 1)

\* the frame the read loop makes of the file at position p
MarcoDe(p) == LeerEnMain(Hoja(directorio[p], p)).df

\* the read loop has run to its end
LecturaTerminada ==
  \/ pc = "leer" /\ i_archivo > Len(archivos_excel)
  \/ pc \in {"conciliar", "combinar", "generar"}
  \/ pc = "fin" /\ mensaje # "no_encontrados"

\* the number of rows of the frames before frame k
RECURSIVE FilasAntes(_, _)
FilasAntes(dfs, k) ==
  IF k <= 1 THEN 0 ELSE FilasAntes(dfs, k - 1) + Len(dfs[k - 1].rows)

NombresDistintos ==
  \E a, b \in 1..Len(dataframes) : dataframes[a].columns # dataframes[b].columns

ColumnasDistintas ==
  \E a, b \in 1..Len(dataframes) :
     Len(dataframes[a].columns) # Len(dataframes[b].columns)

\* the outcomes of main() that are failures of the run
Fallos == {"no_encontrados", "no_validos", "diferentes_columnas"}

\* C1: when the sources pass reconciliation and their column names differ,
\* every record of the merged dataset is embedded as a Display Row whose field
\* i is the value of column i of that record in its own source (the frame read
\* from its file), and "" where the source has fewer than i columns.
C1_ProyeccionPosicional ==
  \A a \in 1..Len(artefactos) :
    NombresDistintos =>
      /\ Len(artefactos[a].filas) = FilasAntes(dataframes, Len(dataframes) + 1)
      /\ \A k \in 1..Len(dataframes) :
           \A r \in 1..Len(dataframes[k].rows) :
             \A i \in 1..Len(columnas_especificas) :
               artefactos[a].filas[FilasAntes(dataframes, k) + r][i] =
                 IF i <= Len(dataframes[k].columns)
                 THEN dataframes[k].rows[r][i]
                 ELSE Texto(<<>>)

\* C2: the merged dataset has as many rows as the frames read have together,
\* and row r of frame k is row (rows of the frames before k) + r of the merged
\* dataset, holding under each label of frame k the value frame k holds there.
C2_ConcatenacionOrdenada ==
  datos_combinados # <<>> =>
    LET m == datos_combinados[1]
    IN  /\ Len(m.rows) = FilasAntes(dataframes, Len(dataframes) + 1)
        /\ \A k \in 1..Len(dataframes) :
             \A r \in 1..Len(dataframes[k].rows) :
               \A i \in 1..Len(dataframes[k].columns) :
                 \E j \in 1..Len(m.columns) :
                   /\ m.columns[j] = dataframes[k].columns[i]
                   /\ m.rows[FilasAntes(dataframes, k) + r][j] =
                        dataframes[k].rows[r][i]

\* two sources of different names and different numbers of rows were merged
C2_Testigo ==
  /\ datos_combinados # <<>>
  /\ Len(dataframes) = 2
  /\ dataframes[1].columns # dataframes[2].columns
  /\ Len(dataframes[1].rows) = 2
  /\ Len(dataframes[2].rows) = 1

\* C3: once reconciliation has run, it has failed exactly when two frames
\* differ in their number of columns, whatever their numbers of rows, and then
\* no merged dataset (and no artifact) exists.
C3_Conciliacion ==
  (pc \in {"combinar", "generar"} \/ (pc = "fin" /\ mensaje \notin {"no_encontrados", "no_validos"}))
    => /\ (mensaje = "diferentes_columnas") <=> ColumnasDistintas
       /\ ColumnasDistintas => datos_combinados = <<>> /\ artefactos = <<>>

\* reconciliation failed on two frames with the same number of rows
C3_Testigo ==
  /\ pc = "fin"
  /\ mensaje = "diferentes_columnas"
  /\ Len(dataframes) = 2
  /\ Len(dataframes[1].rows) = Len(dataframes[2].rows)
  /\ datos_combinados = <<>>

\* C4: when reconciliation fails, the diagnostic has one line per frame read,
\* pairing the name of the file the frame was read from with the number of
\* columns of that frame.
C4_DiagnosticoCompleto ==
  mensaje = "diferentes_columnas" =>
    \A leidos \in {Legibles(directorio, 1)} :
       diagnostico =
         [k \in 1..Len(leidos) |-> <<leidos[k], Len(MarcoDe(leidos[k]).columns)>>]

\* C5: at the end of the read loop the frames are those of the readable
\* spreadsheets of the listing, in listing order.
C5_LegiblesAceptados ==
  LecturaTerminada =>
    \A leidos \in {Legibles(directorio, 1)} :
       dataframes = [k \in 1..Len(leidos) |-> MarcoDe(leidos[k])]

\* a file that cannot be read stands before a readable one, which was read
C5_Testigo ==
  /\ LecturaTerminada
  /\ Len(directorio) = 2
  /\ directorio[1].clase = "xlsx" /\ ~directorio[1].legible
  /\ directorio[2].clase = "xlsx" /\ directorio[2].legible
  /\ Len(dataframes) = 1

\* C6: an artifact is written only if some spreadsheet was read and all the
\* sheets read have the same number of columns; a run without a readable
\* spreadsheet, or with sheets of two widths, ends as a failure and writes
\* nothing.
C6_SalidaSoloSiValido ==
  LET leidos == Legibles(directorio, 1)
      valido == /\ leidos # <<>>
                /\ \A a, b \in 1..Len(leidos) :
                     directorio[leidos[a]].ancho = directorio[leidos[b]].ancho
  IN  /\ artefactos # <<>> => valido
      /\ Len(artefactos) <= 1
      /\ (pc = "fin" /\ ~valido) => (mensaje \in Fallos /\ artefactos = <<>>)
      /\ (pc = "fin" /\ mensaje \in Fallos) => artefactos = <<>>

\* a run whose spreadsheets all failed to read ended without output
C6_Testigo ==
  /\ pc = "fin"
  /\ archivos_excel # <<>>
  /\ mensaje = "no_validos"
  /\ artefactos = <<>>

\* C7: a run that ends for lack of valid sources or for a failed
\* reconciliation has an exit status other than that of a successful run,
\* which is 0.
C7_EstadoDistinto ==
  /\ (pc = "fin" /\ mensaje = "generado") => estado_salida = <<0>>
  /\ (pc = "fin" /\ mensaje \in Fallos) => estado_salida # <<0>>

(***************************************************************************)
(* Properties of header detection                                          *)
(***************************************************************************)
\* the lower-case text of a raw row holds one of the header keywords
FilaTieneClave(fila) ==
  \E k \in 1..Len(palabras_encabezado) :
     Contiene(palabras_encabezado[k],
              Unir([c \in 1..Len(fila) |-> Lower(Str(fila[c]))]))

\* what both loaders made of the sheet, as [salto, datos]
Cargados ==
  {[salto |-> carga[n].salto, datos |-> carga[n].datos] : n \in 1..Len(carga)}
  \cup {[salto |-> bucle[n].salto, datos |-> bucle[n].df] : n \in 1..Len(bucle)}

\* C8 as stated: when row 0 of the raw file holds a keyword, detection is
\* true and the first row of the dataset is row 1 of the raw file.
C8_ClaveEnFila0 ==
  \A res \in Cargados :
    FilaTieneClave(hoja[1]) =>
      /\ res.salto
      /\ Len(hoja) >= 2 => (res.datos.rows # <<>> /\ res.datos.rows[1] = hoja[2])

\* C8 amended: when row 1 of the raw file (its second row) holds a keyword,
\* detection is true, row 1 gives the column labels and the dataset is the
\* rows of the raw file from row 2 on; in both loaders.
C8_ClaveEnFila1 ==
  \A res \in Cargados :
    (Len(hoja) >= 2 /\ FilaTieneClave(hoja[2])) =>
      /\ res.salto
      /\ res.datos.columns = Etiquetas(hoja[2])
      /\ res.datos.rows = SubSeq(hoja, 3, Len(hoja))

\* both loaders read a sheet with a keyword in row 1 and a row 2
C8_Testigo ==
  /\ carga # <<>>
  /\ bucle # <<>>
  /\ Len(hoja) >= 3
  /\ FilaTieneClave(hoja[2])
  /\ ~FilaTieneClave(hoja[1])
  /\ carga[1].salto /\ bucle[1].salto

(***************************************************************************)
(* Properties of buscar_por_cedula                                         *)
(***************************************************************************)
NoEsSeparador(ch) == ch \notin {"-", " "}

\* the query without its hyphens and spaces
Normalizada(cedula) == SelectSeq(cedula, NoEsSeparador)

\* the label names an identity column
EsColumnaCedula(etiqueta) ==
  \E k \in 1..Len(palabras_cedula) :
     Contiene(palabras_cedula[k], Lower(Str(etiqueta)))

\* the candidate columns of a dataset: the identity columns, or all of them
Candidatas(d) ==
  LET c == {j \in 1..Len(d.columns) : EsColumnaCedula(d.columns[j])}
  IN  IF c = {} THEN 1..Len(d.columns) ELSE c

\* the text of the value of row r in column j
TextoEn(d, r, j) == AsTypeStr(d, j).rows[r][j].txt

\* the rows of d whose value in column j contains the normalized query
FilasCon(d, cedula, j) ==
  {r \in 1..Len(d.rows) : Contiene(Normalizada(cedula), TextoEn(d, r, j))}

Minimo(S) == CHOOSE x \in S : \A y \in S : x <= y

\* C9: when some candidate column holds a value containing the normalized
\* query, the call returns the first such record of the first such column,
\* and scans no column after that one.
C9_PrimeraCoincidencia ==
  \A n \in 1..Len(llamada) :
    LET d  == llamada[n].datos_antes
        cc == {j \in Candidatas(d) : FilasCon(d, llamada[n].cedula, j) # {}}
    IN  cc # {} =>
          /\ llamada[n].estudiante =
               <<datos.rows[Minimo(FilasCon(d, llamada[n].cedula, Minimo(cc)))]>>
          /\ \A k \in 1..Len(llamada[n].revisadas) :
               llamada[n].revisadas[k] <= Minimo(cc)

\* On a dataset whose column labels are all text the selection is the one
\* stated: first matching record of the first matching candidate column.
PrimeraCoincidenciaConEtiquetasDeTexto ==
  (\A j \in 1..Len(datos.columns) : datos.columns[j].tipo = "str")
    => C9_PrimeraCoincidencia

\* C10: the normalized query is the query without its hyphens and spaces,
\* every other character kept in order; a scanned column yields a record
\* exactly when one of its values contains the normalized query as a
\* substring; "1-234 567" becomes "1234567" and matches the value "01234567".
C10_NormalizacionYSubcadena ==
  \A n \in 1..Len(llamada) :
    LET ll == llamada[n]
        d  == llamada[n].datos_antes
    IN  /\ ll.limpia = Normalizada(ll.cedula)
        /\ \A k \in 1..Len(ll.revisadas) :
             (\E r \in 1..Len(d.rows) :
                 Contiene(ll.limpia, TextoEn(d, r, ll.revisadas[k])))
             <=> (k = Len(ll.revisadas) /\ ll.estudiante # <<>>)
        /\ ll.estudiante # <<>> =>
             Contiene(ll.limpia, ll.estudiante[1][ll.revisadas[Len(ll.revisadas)]].txt)
        /\ ll.cedula = <<"1","-","2","3","4"," ","5","6","7">> =>
             /\ ll.limpia = <<"1","2","3","4","5","6","7">>
             /\ \A k \in 1..Len(ll.revisadas) :
                  \A r \in 1..Len(d.rows) :
                    d.rows[r][ll.revisadas[k]] = Texto(<<"0","1","2","3","4","5","6","7">>)
                      => ll.estudiante # <<>>

\* the query "1-234 567" found the record whose identity value is "01234567"
C10_Testigo ==
  /\ llamada # <<>>
  /\ llamada[1].cedula = <<"1","-","2","3","4"," ","5","6","7">>
  /\ llamada[1].estudiante # <<>>
  /\ llamada[1].estudiante[1][llamada[1].revisadas[Len(llamada[1].revisadas)]] =
       Texto(<<"0","1","2","3","4","5","6","7">>)

\* C11: a call returns None exactly when no candidate column of the dataset
\* holds a value containing the normalized query, whatever the dataset (no
\* rows, absent values, labels that are not text).
C11_NoEncontradoSiYSoloSi ==
  \A n \in 1..Len(llamada) :
    LET d == llamada[n].datos_antes
    IN  (llamada[n].estudiante = <<>>)
          <=> (\A j \in Candidatas(d) : FilasCon(d, llamada[n].cedula, j) = {})

\* the columns of d whose label names an identity column
ColumnasClave(d) == {j \in 1..Len(d.columns) : EsColumnaCedula(d.columns[j])}

\* C15: the columns a lookup scans are candidate columns, taken in column
\* order without passing one over: the columns whose lower-cased label
\* contains cedula, cédula, identificacion, identificación, dni or id, and
\* all the columns only when no label does; a lookup that reaches its end
\* without a record has scanned every candidate.  So when such a column
\* exists, a query found in none of them returns None, also when another
\* column holds it.
C15_ColumnasCandidatas ==
  \A n \in 1..Len(llamada) :
    \E d \in {llamada[n].datos_antes} :
      \E rev \in {llamada[n].revisadas} :
        /\ \A k \in 1..Len(rev) :
             /\ rev[k] \in Candidatas(d)
             /\ {j \in Candidatas(d) : j < rev[k]} = {rev[i] : i \in 1..(k - 1)}
        /\ (\E k \in 1..Len(rev) : rev[k] \notin ColumnasClave(d))
             => ColumnasClave(d) = {}
        /\ (llamada[n].estudiante = <<>> /\ ~llamada[n].excepcion)
             => {rev[k] : k \in 1..Len(rev)} = Candidatas(d)
        /\ (/\ ColumnasClave(d) # {}
            /\ \A j \in ColumnasClave(d) : FilasCon(d, llamada[n].cedula, j) = {})
             => llamada[n].estudiante = <<>>

\* a lookup scanned the identity column, did not find the query there and
\* returned None, though another column holds the query
C15_Testigo ==
  /\ llamada # <<>>
  /\ ~llamada[1].excepcion
  /\ llamada[1].estudiante = <<>>
  /\ llamada[1].revisadas # <<>>
  /\ ColumnasClave(llamada[1].datos_antes) # {}
  /\ \E j \in 1..Len(llamada[1].datos_antes.columns) :
       /\ j \notin ColumnasClave(llamada[1].datos_antes)
       /\ FilasCon(llamada[1].datos_antes, llamada[1].cedula, j) # {}

\* a lookup on a dataset without identity column scanned every column
C15_TestigoTodas ==
  /\ llamada # <<>>
  /\ ColumnasClave(llamada[1].datos_antes) = {}
  /\ Len(llamada[1].revisadas) = 2

(***************************************************************************)
(* Properties of the display projection                                    *)
(***************************************************************************)
\* the projections computed so far, of either class
Proyecciones == {df_html[k] : k \in 1..Len(df_html)}
                  \cup {df_html_combinado[k] : k \in 1..Len(df_html_combinado)}

\* C12: the projection of a dataset has one row per record, in record order;
\* a row has the six fields Cédula, Nombre, Módulos, Temario, Tabla de
\* Especificaciones, Prueba Escrita; field i is the value of column i, the
\* columns after the sixth are dropped and a missing column gives "".
C12_SeisCamposPorPosicion ==
  /\ columnas_especificas =
       <<"Cédula", "Nombre", "Módulos", "Temario", "Tabla de Especificaciones",
         "Prueba Escrita">>
  /\ \A filas \in Proyecciones :
       /\ Len(filas) = Len(tabla.rows)
       /\ \A r \in 1..Len(filas) :
            /\ Len(filas[r]) = 6
            /\ \A i \in 1..6 :
                 filas[r][i] = IF i <= Len(tabla.columns) THEN tabla.rows[r][i]
                               ELSE Texto(<<>>)

\* both classes projected a dataset of more than six columns with records
C12_Testigo ==
  /\ df_html # <<>>
  /\ df_html_combinado # <<>>
  /\ Len(tabla.columns) > 6
  /\ tabla.rows # <<>>

\* both classes projected a dataset of fewer than six columns with records
C12_TestigoCorto ==
  /\ df_html # <<>>
  /\ df_html_combinado # <<>>
  /\ Len(tabla.columns) \in 1..5
  /\ tabla.rows # <<>>
  /\ \A r \in 1..Len(df_html[1]) : df_html[1][r][6] = Texto(<<>>)

(***************************************************************************)
(* Properties of the page                                                  *)
(***************************************************************************)
\* the page is loaded and every key pressed in the search box is released
EnReposo == cargada /\ ~tecla_abajo

\* the Identity Number of an embedded row as text; an absent one is empty
Identidad(row) == IF row[1].tipo = "nan" THEN <<>> ELSE row[1].txt

\* the embedded rows whose Identity Number equals the query, in order
FilasIguales(q) ==
  LET Igual(row) == Lower(Identidad(row)) = Lower(q)
  IN  SelectSeq(tableData, Igual)

Visible(id) == display[id] # "none"

\* C13: once the keys are released, the text of the search box holds digits
\* only and, when it is not empty, the rows displayed are exactly the
\* embedded rows whose Identity Number equals it, in embedded order; no row
\* whose Identity Number is longer than the query is displayed.  (What an
\* empty search box displays is the matter of C14.)
C13_IgualdadExacta ==
  EnReposo =>
    /\ \A i \in 1..Len(searchInput) : EsDigito(searchInput[i])
    /\ searchInput # <<>> =>
         \E esperadas \in {FilasIguales(searchInput)} :
            /\ tbody = [k \in 1..Len(esperadas) |-> Celdas(esperadas[k])]
            /\ \A k \in 1..Len(tbody) : tbody[k][1] = searchInput

\* no embedded Identity Number is the number 0
SinCedulaCero ==
  \A k \in 1..Len(tableData) : tableData[k][1] # Entero(<<"0">>)

\* On a page none of whose rows has the number 0 as Identity Number the rows
\* displayed are the ones stated.
IgualdadExactaSinCedulaCero == SinCedulaCero => C13_IgualdadExacta

\* C14: once the page is loaded and the keys are released, exactly one of
\* the table, the placeholder and the "no results" message is visible: the
\* placeholder, with no row displayed, when the search box is empty; "no
\* results" when it is not empty and no embedded row has that Identity
\* Number; the table otherwise.
C14_UnSoloEstado ==
  EnReposo =>
    \E coincide \in {FilasIguales(searchInput) # <<>>} :
      /\ Cardinality({id \in {"dataTable", "initialMessage", "noResults"} :
                        Visible(id)}) = 1
      /\ searchInput = <<>> => Visible("initialMessage") /\ tbody = <<>>
      /\ searchInput # <<>> /\ ~coincide => Visible("noResults")
      /\ searchInput # <<>> /\ coincide => Visible("dataTable")

\* The three states in terms of the rows displayed: exactly one element is
\* visible, the placeholder on an empty search box (no row displayed), "no
\* results" on a search box with text and no row displayed, the table when
\* rows are displayed.
UnSoloEstadoSegunFilasMostradas ==
  EnReposo =>
    /\ Cardinality({id \in {"dataTable", "initialMessage", "noResults"} :
                      Visible(id)}) = 1
    /\ ~Visible("errorMessage")
    /\ searchInput = <<>> => Visible("initialMessage") /\ tbody = <<>>
    /\ searchInput # <<>> /\ tbody = <<>> => Visible("noResults")
    /\ tbody # <<>> => Visible("dataTable") /\ searchInput # <<>>

(***************************************************************************)
(* Properties of the reports of GestorNotas                                *)
(***************************************************************************)
\* the dataset as loaded from the sheet, before any lookup
DatosCargados == CargarDatos(archivo_excel).datos

\* C16: whatever lookups came before, the Display Rows, the full-data sheet
\* and the type label and non-empty count of every column in the summary
\* sheet are those of the dataset as it was loaded.
C16_BusquedaSinEfecto ==
  \A original \in {DatosCargados} :
    /\ \A k \in 1..Len(html) : html[k].datos_json = FilasHtml(original)
    /\ \A k \in 1..Len(libro) :
         \A h \in 1..Len(libro[k].hojas) :
           /\ libro[k].hojas[h].Datos_Completos = original
           /\ \A j \in 1..Len(original.columns) :
                /\ libro[k].hojas[h].Resumen_Columnas[j].Tipo_Dato =
                     TipoDato(original, j)
                /\ libro[k].hojas[h].Resumen_Columnas[j].Valores_No_Nulos =
                     ValoresNoNulos(original, j)

\* What a lookup leaves alone: the labels and the number of records, hence
\* the metadata sheet, the column names of the summary and the number of
\* Display Rows.
BusquedaConservaForma ==
  \A original \in {DatosCargados} :
    /\ datos.columns = original.columns
    /\ Len(datos.rows) = Len(original.rows)
    /\ \A k \in 1..Len(libro) :
         \A h \in 1..Len(libro[k].hojas) :
           libro[k].hojas[h].Informacion_General =
             LibroExcel(original).Informacion_General

\* C18: every call of GestorNotas.generar_html5_interactivo on a loaded
\* dataset ends without exception and has written one artifact with one
\* Display Row per record.
C18_ArtefactoDeUnaFuente ==
  \A k \in 1..Len(html) :
    /\ ~html[k].excepcion
    /\ Len(html[k].archivo) = 1
    /\ \A a \in 1..Len(html[k].archivo) :
         Len(html[k].archivo[a].filas) = Len(datos.rows)

(***************************************************************************)
(* Properties of the provenance                                            *)
(***************************************************************************)
\* C17: the provenance list given to GestorNotasCombinado is the list of the
\* spreadsheets that were read, in listing order, and the file count of the
\* artifact is their number; a skipped file is not in it.
C17_ProcedenciaExacta ==
  /\ \A k \in 1..Len(archivos_origen) :
       archivos_origen[k] = Legibles(directorio, 1)
  /\ \A a \in 1..Len(artefactos) : artefactos[a].n_archivos = Len(dataframes)

\* When every spreadsheet of the listing was read, the provenance is the
\* list of the files read and the artifact counts them.
ProcedenciaExactaSinOmitidos ==
  (\A p \in 1..Len(directorio) :
      directorio[p].clase = "xlsx" => directorio[p].legible)
    => C17_ProcedenciaExacta

====
